---- MODULE Spec2Model ----
(***************************************************************************)
(* A model of the H-Ecommerce server: the session gate (server/auth.ts),   *)
(* the HTTP handlers (server/routes.ts) and the storage operations they    *)
(* await (server/storage.ts).  Every await of a handler is one step, so    *)
(* two requests in flight interleave at the points where the code          *)
(* suspends.  The backing store is the external database; its rows are     *)
(* the variables below.  The storefront's cart (client/src/hooks/          *)
(* use-cart.tsx, client/src/components/cart.tsx) is modelled beside it.    *)
(***************************************************************************)
EXTENDS Integers, Sequences, FiniteSets, TLC

VARIABLES
    products,      \* table products: id -> [live, stockQuantity, categoryId]
    nextProductId, \* the serial that numbers new product rows
    categories,    \* ids of the rows of table categories
    nextCategoryId,\* the serial that numbers new category rows
    tags,          \* table tags: set of [id, name, slug]
    nextTagId,     \* the serial that numbers new tag rows
    productTags,   \* table product_tags: set of <<productId, tagId>>
    categoryTags,  \* table category_tags: set of <<categoryId, tagId>>
    orders,        \* table orders: set of [id, orderStatus]
    nextOrderId,   \* the serial that numbers new order rows
    orderItems,    \* table order_items: set of rows
    session,       \* supabaseToken held by the admin browser's session
    validTokens,   \* tokens the identity provider accepts at this moment
    req,           \* the requests in flight, one record per slot
    cart,          \* the storefront's cart: CartState.items
    dispatched     \* the last action given to the cart's reducer

catalog == <<products, nextProductId, categories, nextCategoryId, tags,
             nextTagId, productTags, categoryTags>>
ledger == <<orders, nextOrderId, orderItems>>
store == <<catalog, ledger>>
auth == <<session, validTokens>>
storefront == <<cart, dispatched>>
outside == <<auth, storefront>>   \* what no handler of the server writes
vars == <<products, nextProductId, categories, nextCategoryId, tags,
          nextTagId, productTags, categoryTags, orders, nextOrderId,
          orderItems, session, validTokens, req, cart, dispatched>>

----------------------------------------------------------------------------
(* Bounds of the model *)

MaxQty == 2        \* largest quantity an order item asks for
InitStock == 2     \* stock of the products the store starts with
MaxOrders == 2     \* order rows the store accepts before the model stops
MaxProducts == 3   \* product rows the store accepts before the model stops
MaxCategories == 2 \* category rows the store accepts before the model stops
MaxTags == 4       \* tag rows the store accepts before the model stops
MaxCartQty == 3    \* largest quantity of a cart entry before the model stops

Slots == {1, 2}              \* requests that can be in flight together
ProductIds == 1..MaxProducts
SeedProducts == {1, 2}       \* the products already in the store
SeedCategories == {1}
SeedTags == {1, 2}
Tokens == {"tok"}
NoToken == ""

(* An optional field of a JSON body: <<>> when absent, <<v>> when present. *)
None == <<>>
Some(v) == <<v>>
IsSome(o) == Len(o) = 1
Get(o) == o[1]

----------------------------------------------------------------------------
(* Request records *)

EmptyBody ==
    [customerWhatsapp |-> None, orderStatus |-> None, items |-> None,
     name |-> None, slug |-> None, price |-> None, stockQuantity |-> None,
     categoryId |-> None, tags |-> None, tagId |-> None,
     productId |-> None]

IdleReq ==
    [pc |-> "idle", method |-> "GET", url |-> <<>>, id |-> 0,
     client |-> "anon", user |-> FALSE, sessOK |-> FALSE, resp |-> 0,
     wrote |-> FALSE, alone |-> TRUE, body |-> EmptyBody,
     order |-> EmptyBody, items |-> <<>>, orderId |-> 0, itemPc |-> <<>>,
     itemRead |-> <<>>, before |-> <<>>, pid |-> 0, cat |-> 0, todo |-> <<>>,
     returned |-> <<>>, hadTags |-> {}]

InFlight(q) == req[q].pc \notin {"idle", "done"}

(* A step of request r that writes no row. *)
Local(r, rec) == req' = [req EXCEPT ![r] = rec]

(* A step of request r that writes to the store: r is marked as a writer  *)
(* and every other request in flight has had a concurrent writer.         *)
Wrote(r, rec) ==
    req' = [q \in Slots |->
              IF q = r THEN [rec EXCEPT !.wrote = TRUE]
              ELSE IF InFlight(q) THEN [req[q] EXCEPT !.alone = FALSE]
              ELSE req[q]]

Respond(rec, code) == [rec EXCEPT !.pc = "done", !.resp = code]

----------------------------------------------------------------------------
(* Session gate: server/auth.ts *)

MountPaths ==
    { <<"api", "categories">>, <<"api", "products">>, <<"api", "orders">>,
      <<"api", "tags">>, <<"api", "settings">> }

IsPrefix(m, u) == Len(m) <= Len(u) /\ SubSeq(u, 1, Len(m)) = m

Mounted(u) == \E m \in MountPaths : IsPrefix(m, u)

(* Express strips the mount point: inside the middleware req.path is the  *)
(* rest of the URL after the mount path that matched.                     *)
ReqPath(u) ==
    LET m == CHOOSE x \in MountPaths : IsPrefix(x, u)
    IN  SubSeq(u, Len(m) + 1, Len(u))

PathIncludes(p, needle) ==
    \E i \in 1..(Len(p) - Len(needle) + 1) :
        SubSeq(p, i, i + Len(needle) - 1) = needle

(* auth.ts:67 *)
PublicGetMutant(method, u) == FALSE
PublicGet(method, u) ==
    method = "GET" /\ ~PathIncludes(ReqPath(u), <<"api", "orders">>)

(* supabase.auth.getUser(token): a user, or an error *)
GetUserOk(tok) == tok \in validTokens

SessionToken(client) == IF client = "admin" THEN session ELSE NoToken

SessionGate(r) ==
    /\ req[r].pc = "gate"
    /\ UNCHANGED <<store, outside>>
    /\ LET q == req[r]
           tok == SessionToken(q.client)
           ok == tok # NoToken /\ GetUserOk(tok)
           seen == [q EXCEPT !.sessOK = ok]
       IN  IF ~Mounted(q.url) \/ PublicGet(q.method, q.url)
           THEN Local(r, [seen EXCEPT !.pc = "handler"])
           ELSE IF tok = NoToken THEN Local(r, Respond(seen, 401))
           ELSE IF ~GetUserOk(tok) THEN Local(r, Respond(seen, 401))
           ELSE Local(r, [seen EXCEPT !.pc = "handler", !.user = TRUE])

(* POST /api/login: the provider issues a token, the session keeps it *)
Login ==
    /\ \E t \in Tokens :
         /\ session' = t
         /\ validTokens' = validTokens \cup {t}
    /\ UNCHANGED <<store, req, storefront>>

(* POST /api/logout: the session is destroyed *)
Logout ==
    /\ session # NoToken
    /\ session' = NoToken
    /\ UNCHANGED <<store, validTokens, req, storefront>>

(* The provider stops accepting a token (expiry, revocation) *)
TokenExpires ==
    /\ \E t \in validTokens : validTokens' = validTokens \ {t}
    /\ UNCHANGED <<store, session, req, storefront>>

(* A response has been read by the client: the slot is free again *)
Finish(r) ==
    /\ req[r].pc = "done"
    /\ \A i \in 1..Len(req[r].itemPc) : req[r].itemPc[i] \in {"done", "failed"}
    /\ req' = [req EXCEPT ![r] = IdleReq]
    /\ UNCHANGED <<store, outside>>

(* A request arrives *)
Arrive(r, method, url, id, client, body) ==
    /\ req[r].pc = "idle"
    /\ req' = [req EXCEPT ![r] =
                 [IdleReq EXCEPT !.pc = "gate", !.method = method,
                                 !.url = url, !.id = id, !.client = client,
                                 !.body = body]]
    /\ UNCHANGED <<store, outside>>

----------------------------------------------------------------------------
(* Schemas: shared/schema.ts *)

StrMin1(o) == IsSome(o) /\ Get(o) # ""
NumMin(o, k) == IsSome(o) /\ Get(o) >= k
OptStrMin1(o) == IsSome(o) => Get(o) # ""
OptNumMin(o, k) == IsSome(o) => Get(o) >= k

(* insertOrderSchema.safeParse *)
OrderSchemaOk(b) == StrMin1(b.customerWhatsapp)

DefaultStatus(b) ==
    IF IsSome(b.orderStatus) THEN Get(b.orderStatus) ELSE "New"

OrderParsed(b) ==
    [customerWhatsapp |-> Get(b.customerWhatsapp),
     orderStatus |-> DefaultStatus(b)]

(* insertOrderItemSchema.safeParse *)
OrderItemSchemaOk(it) ==
    /\ IsSome(it.orderId)
    /\ IsSome(it.productId)
    /\ NumMin(it.quantity, 1)
    /\ NumMin(it.price, 0)

(* z.array(insertOrderItemSchema).safeParse *)
ItemsSchemaOk(list) == \A i \in 1..Len(list) : OrderItemSchemaOk(list[i])

ItemParsed(it) ==
    [orderId |-> Get(it.orderId), productId |-> Get(it.productId),
     quantity |-> Get(it.quantity), price |-> Get(it.price)]

(* insertProductSchema.safeParse, and its .partial() *)
ProductSchemaOk(b) ==
    /\ StrMin1(b.name)
    /\ NumMin(b.price, 0)
    /\ NumMin(b.stockQuantity, 0)

PartialProductSchemaOk(b) ==
    /\ OptStrMin1(b.name)
    /\ OptNumMin(b.price, 0)
    /\ OptNumMin(b.stockQuantity, 0)

----------------------------------------------------------------------------
(* Order ledger: POST /api/orders, GET /api/orders, storage.createOrder *)

IsRoute(r, method, url) == req[r].method = method /\ req[r].url = url

StockSnapshot == [p \in ProductIds |-> products[p].stockQuantity]

(* a row of products with this id *)
ProductExists(p) == p \in ProductIds /\ products[p].live

(* storage.ts:589-593: the value written back is computed from the value   *)
(* read two awaits earlier; the row's current value plays no part.         *)
NewStockMutant(current, read, quantity) == current - quantity
NewStock(current, read, quantity) == read - quantity

(* routes.ts:311-315: createOrder rejected, as Promise.all does when one of *)
(* its tasks throws, is answered 500; createOrder returned is answered 201. *)
OrderOutcomeMutant(itemPc) == 201
OrderOutcome(itemPc) ==
    IF \E i \in 1..Len(itemPc) : itemPc[i] = "failed" THEN 500 ELSE 201

(* storage.ts:599-605: the items of the Order value createOrder returns *)
ReturnedItems(items) == <<>>

(* storage.ts:575-577: the row of an item, { ...item, order_id: newOrder.id } *)
OrderItemRowMutant(orderId, i, it) ==
    [orderId |-> it.orderId, idx |-> i, productId |-> it.productId,
     quantity |-> it.quantity, price |-> it.price]
OrderItemRow(orderId, i, it) ==
    [orderId |-> orderId, idx |-> i, productId |-> it.productId,
     quantity |-> it.quantity, price |-> it.price]

(* routes.ts:299-316 and storage.ts:561-571, 599-605 *)
PostOrders(r) ==
    /\ IsRoute(r, "POST", <<"api", "orders">>)
    /\ LET q == req[r] IN
       CASE q.pc = "handler" ->
              /\ UNCHANGED <<store, outside>>
              /\ IF ~OrderSchemaOk(q.body) THEN Local(r, Respond(q, 400))
                 ELSE IF ~IsSome(q.body.items) THEN Local(r, Respond(q, 400))
                 ELSE IF ~ItemsSchemaOk(Get(q.body.items))
                 THEN Local(r, Respond(q, 400))
                 ELSE Local(r, [q EXCEPT
                        !.pc = "createOrder",
                        !.order = OrderParsed(q.body),
                        !.items = [i \in 1..Len(Get(q.body.items)) |->
                                     ItemParsed(Get(q.body.items)[i])]])
         [] q.pc = "createOrder" ->
              /\ nextOrderId <= MaxOrders
              /\ orders' = orders \cup
                    {[id |-> nextOrderId, orderStatus |-> q.order.orderStatus]}
              /\ nextOrderId' = nextOrderId + 1
              /\ UNCHANGED <<catalog, orderItems, outside>>
              /\ Wrote(r, [q EXCEPT
                     !.pc = "items",
                     !.orderId = nextOrderId,
                     !.itemPc = [i \in 1..Len(q.items) |-> "insert"],
                     !.itemRead = [i \in 1..Len(q.items) |-> 0],
                     !.before = StockSnapshot])
         [] q.pc = "items" ->
              /\ UNCHANGED <<store, outside>>
              /\ IF \E i \in 1..Len(q.itemPc) : q.itemPc[i] = "failed"
                 THEN Local(r, Respond(q, OrderOutcome(q.itemPc)))
                 ELSE /\ \A i \in 1..Len(q.itemPc) : q.itemPc[i] = "done"
                      /\ Local(r, Respond(
                            [q EXCEPT !.returned = ReturnedItems(q.items)],
                            OrderOutcome(q.itemPc)))
         [] OTHER -> FALSE

(* storage.ts:574-596: one of the tasks Promise.all runs side by side *)
CreateOrderItem(r, i) ==
    /\ IsRoute(r, "POST", <<"api", "orders">>)
    /\ req[r].pc \in {"items", "done"}
    /\ i \in 1..Len(req[r].itemPc)
    /\ LET q == req[r]
           it == q.items[i]
           p == it.productId
       IN
       CASE q.itemPc[i] = "insert" ->
              (* whether order_items.product_id is a foreign key is fixed  *)
              (* by the database: the insert of an item of a missing       *)
              (* product fails or goes through                             *)
              \/ /\ ~ProductExists(p)
                 /\ UNCHANGED <<store, outside>>
                 /\ Local(r, [q EXCEPT !.itemPc[i] = "failed"])
              \/ /\ orderItems' = orderItems \cup {OrderItemRow(q.orderId, i, it)}
                 /\ UNCHANGED <<catalog, orders, nextOrderId, outside>>
                 /\ Wrote(r, [q EXCEPT !.itemPc[i] = "read"])
         [] q.itemPc[i] = "read" ->
              /\ UNCHANGED <<store, outside>>
              /\ IF ProductExists(p)
                 THEN Local(r, [q EXCEPT
                        !.itemPc[i] = "write",
                        !.itemRead[i] = products[p].stockQuantity])
                 ELSE Local(r, [q EXCEPT !.itemPc[i] = "failed"])
         [] q.itemPc[i] = "write" ->
              /\ products' =
                    IF ProductExists(p)
                    THEN [products EXCEPT ![p].stockQuantity =
                            NewStock(products[p].stockQuantity,
                                     q.itemRead[i], it.quantity)]
                    ELSE products
              /\ UNCHANGED <<nextProductId, categories, nextCategoryId,
                             tags, nextTagId, productTags, categoryTags,
                             ledger, outside>>
              /\ Wrote(r, [q EXCEPT !.itemPc[i] = "done"])
         [] OTHER -> FALSE

(* routes.ts:289-297 *)
GetOrders(r) ==
    /\ IsRoute(r, "GET", <<"api", "orders">>)
    /\ req[r].pc = "handler"
    /\ UNCHANGED <<store, outside>>
    /\ Local(r, Respond(req[r], 200))

(* storage.ts:103-113: SupabaseStorage has the field sessionStore only; the *)
(* client supabase is a constant of the module, so storage.supabase is     *)
(* undefined and reading .from of it throws inside the handler's try.      *)
StorageSupabaseDefined == FALSE

(* routes.ts:335-362 *)
DeleteOrders(r) ==
    /\ IsRoute(r, "DELETE", <<"api", "orders", ":id">>)
    /\ LET q == req[r] IN
       CASE q.pc = "handler" ->
              /\ UNCHANGED <<store, outside>>
              /\ IF ~q.user THEN Local(r, Respond(q, 403))
                 ELSE Local(r, [q EXCEPT !.pc = "deleteItems"])
         [] q.pc = "deleteItems" ->
              /\ UNCHANGED <<catalog, orders, nextOrderId, outside>>
              /\ IF ~StorageSupabaseDefined
                 THEN /\ UNCHANGED orderItems
                      /\ Local(r, Respond(q, 500))
                 ELSE /\ orderItems' =
                            {row \in orderItems : row.orderId # q.id}
                      /\ Wrote(r, [q EXCEPT !.pc = "deleteOrder"])
         [] q.pc = "deleteOrder" ->
              (* delete() without select() returns no rows: data is null *)
              /\ UNCHANGED <<catalog, nextOrderId, orderItems, outside>>
              /\ orders' = {o \in orders : o.id # q.id}
              /\ Wrote(r, Respond(q, 404))
         [] OTHER -> FALSE

----------------------------------------------------------------------------
(* Catalog store and tag links: storage.ts *)

LiveProducts == {p \in ProductIds : products[p].live}
TagIds == {t.id : t \in tags}

Min(S) == CHOOSE m \in S : \A x \in S : m <= x

RECURSIVE SetToSeq(_)
SetToSeq(S) == IF S = {} THEN <<>> ELSE <<Min(S)>> \o SetToSeq(S \ {Min(S)})

(* storage.getCategoryTags: the tags joined through category_tags *)
GetCategoryTags(c) == {t \in TagIds : <<c, t>> \in categoryTags}

(* storage.getProduct(...).tags: the tags joined through product_tags *)
GetProductTags(p) == {t \in TagIds : <<p, t>> \in productTags}

(* storage.getProductsByCategory *)
GetProductsByCategory(c) == {p \in LiveProducts : products[p].categoryId = c}

(* storage.addProductTag: a duplicate key is ignored, any other error of   *)
(* the insert (the row names no product or no tag) is thrown.              *)
AddProductTagThrowsMutant(p, t) ==
    \/ <<p, t>> \in productTags
    \/ p \notin LiveProducts \/ t \notin TagIds

AddProductTagThrows(p, t) ==
    /\ <<p, t>> \notin productTags
    /\ p \notin LiveProducts \/ t \notin TagIds

AddProductTag(p, t) == productTags \cup {<<p, t>>}

(* storage.removeProductTag: every link of the product *)
RemoveProductTagMutant(p) == productTags
RemoveProductTag(p) == {l \in productTags : l[1] # p}

(* storage.addCategoryTag *)
AddCategoryTagThrows(c, t) ==
    /\ <<c, t>> \notin categoryTags
    /\ c \notin categories \/ t \notin TagIds

AddCategoryTag(c, t) == categoryTags \cup {<<c, t>>}

(* storage.removeCategoryTag: every link of the category *)
RemoveCategoryTag(c) == {l \in categoryTags : l[1] # c}

(* products.category_id names a row of categories, or is NULL (0) *)
CategoryMissing(o) == IsSome(o) /\ Get(o) # 0 /\ Get(o) \notin categories

----------------------------------------------------------------------------
(* Products: routes.ts:199-283 *)

(* routes.ts:216 and 254: category tags are read when categoryId is truthy *)
AfterTags(rec) ==
    IF rec.cat # 0 THEN [rec EXCEPT !.pc = "getCategoryTags"]
    ELSE [rec EXCEPT !.pc = "getProduct"]

AfterTagList(rec) ==
    IF rec.todo # <<>> THEN [rec EXCEPT !.pc = "addTags"] ELSE AfterTags(rec)

(* routes.ts:246-262: the category's tags are read again only inside the   *)
(* branch taken when the body carries a tags array.                        *)
AfterUpdate(rec, hasTags) ==
    IF hasTags THEN [rec EXCEPT !.pc = "removeProductTag"]
    ELSE [rec EXCEPT !.pc = "getProduct"]

(* The awaits shared by POST and PATCH: the loops over tags, the read of   *)
(* the category's tags, the final getProduct.                              *)
ProductTagSteps(r, okCode) ==
    LET q == req[r] IN
    CASE q.pc = "addTags" ->
           /\ UNCHANGED <<outside, ledger>>
           /\ IF AddProductTagThrows(q.pid, Head(q.todo))
              THEN /\ UNCHANGED catalog
                   /\ Local(r, Respond(q, 500))
              ELSE /\ productTags' = AddProductTag(q.pid, Head(q.todo))
                   /\ UNCHANGED <<products, nextProductId, categories,
                                  nextCategoryId, tags, nextTagId,
                                  categoryTags>>
                   /\ Wrote(r, AfterTagList([q EXCEPT !.todo = Tail(q.todo)]))
      [] q.pc = "getCategoryTags" ->
           /\ UNCHANGED <<store, outside>>
           /\ LET got == [q EXCEPT !.todo = SetToSeq(GetCategoryTags(q.cat))]
              IN  IF got.todo # <<>>
                  THEN Local(r, [got EXCEPT !.pc = "inherit"])
                  ELSE Local(r, [got EXCEPT !.pc = "getProduct"])
      [] q.pc = "inherit" ->
           /\ UNCHANGED <<outside, ledger>>
           /\ IF AddProductTagThrows(q.pid, Head(q.todo))
              THEN /\ UNCHANGED catalog
                   /\ Local(r, Respond(q, 500))
              ELSE /\ productTags' = AddProductTag(q.pid, Head(q.todo))
                   /\ UNCHANGED <<products, nextProductId, categories,
                                  nextCategoryId, tags, nextTagId,
                                  categoryTags>>
                   /\ LET rest == [q EXCEPT !.todo = Tail(q.todo)]
                      IN  IF rest.todo # <<>>
                          THEN Wrote(r, rest)
                          ELSE Wrote(r, [rest EXCEPT !.pc = "getProduct"])
      [] q.pc = "getProduct" ->
           /\ UNCHANGED <<store, outside>>
           /\ IF q.pid \in LiveProducts
              THEN Local(r, Respond(q, okCode))
              ELSE Local(r, Respond(q, 500))
      [] OTHER -> FALSE

(* routes.ts:199-232, storage.ts:186-232 *)
PostProducts(r) ==
    /\ IsRoute(r, "POST", <<"api", "products">>)
    /\ LET q == req[r] IN
       CASE q.pc = "handler" ->
              /\ UNCHANGED <<store, outside>>
              /\ IF ~q.user THEN Local(r, Respond(q, 403))
                 ELSE IF ~ProductSchemaOk(q.body)
                 THEN Local(r, Respond(q, 400))
                 ELSE Local(r, [q EXCEPT !.pc = "createProduct"])
         [] q.pc = "createProduct" ->
              /\ UNCHANGED <<outside, ledger>>
              /\ IF CategoryMissing(q.body.categoryId)
                 THEN /\ UNCHANGED catalog
                      /\ Local(r, Respond(q, 500))
                 ELSE /\ nextProductId <= MaxProducts
                      /\ LET c == IF IsSome(q.body.categoryId)
                                  THEN Get(q.body.categoryId) ELSE 0
                         IN
                         /\ products' = [products EXCEPT ![nextProductId] =
                               [live |-> TRUE,
                                stockQuantity |-> Get(q.body.stockQuantity),
                                categoryId |-> c]]
                         /\ nextProductId' = nextProductId + 1
                         /\ UNCHANGED <<categories, nextCategoryId, tags,
                                        nextTagId, productTags, categoryTags>>
                         /\ Wrote(r, AfterTagList([q EXCEPT
                               !.pid = nextProductId,
                               !.cat = c,
                               !.todo = IF IsSome(q.body.tags)
                                        THEN Get(q.body.tags) ELSE <<>>]))
         [] OTHER -> ProductTagSteps(r, 201)

(* routes.ts:234-272, storage.ts:234-304 *)
PatchProducts(r) ==
    /\ IsRoute(r, "PATCH", <<"api", "products", ":id">>)
    /\ LET q == req[r] IN
       CASE q.pc = "handler" ->
              /\ UNCHANGED <<store, outside>>
              /\ IF ~q.user THEN Local(r, Respond(q, 403))
                 ELSE IF ~PartialProductSchemaOk(q.body)
                 THEN Local(r, Respond(q, 400))
                 ELSE Local(r, [q EXCEPT !.pc = "updateProduct"])
         [] q.pc = "updateProduct" ->
              /\ UNCHANGED <<outside, ledger>>
              /\ IF q.id \notin LiveProducts \/ CategoryMissing(q.body.categoryId)
                 THEN /\ UNCHANGED catalog
                      /\ Local(r, Respond(q, 500))
                 ELSE LET old == products[q.id]
                          row == [live |-> TRUE,
                                  stockQuantity |->
                                     IF IsSome(q.body.stockQuantity)
                                     THEN Get(q.body.stockQuantity)
                                     ELSE old.stockQuantity,
                                  categoryId |->
                                     IF IsSome(q.body.categoryId)
                                     THEN Get(q.body.categoryId)
                                     ELSE old.categoryId]
                      IN
                      /\ products' = [products EXCEPT ![q.id] = row]
                      /\ UNCHANGED <<nextProductId, categories, nextCategoryId,
                                     tags, nextTagId, productTags,
                                     categoryTags>>
                      (* hadTags records the links the product has now *)
                      /\ Wrote(r, AfterUpdate(
                            [q EXCEPT !.pid = q.id, !.cat = row.categoryId,
                                      !.hadTags = GetProductTags(q.id)],
                            IsSome(q.body.tags)))
         [] q.pc = "removeProductTag" ->
              /\ UNCHANGED <<outside, ledger>>
              /\ productTags' = RemoveProductTag(q.id)
              /\ UNCHANGED <<products, nextProductId, categories,
                             nextCategoryId, tags, nextTagId, categoryTags>>
              /\ Wrote(r, AfterTagList([q EXCEPT !.todo = Get(q.body.tags)]))
         [] OTHER -> ProductTagSteps(r, 200)

(* routes.ts:190-197 *)
GetProducts(r) ==
    /\ IsRoute(r, "GET", <<"api", "products">>)
    /\ req[r].pc = "handler"
    /\ UNCHANGED <<store, outside>>
    /\ Local(r, Respond(req[r], 200))

(* routes.ts:274-283, storage.ts:306-314 *)
DeleteProducts(r) ==
    /\ IsRoute(r, "DELETE", <<"api", "products", ":id">>)
    /\ LET q == req[r] IN
       CASE q.pc = "handler" ->
              /\ UNCHANGED <<store, outside>>
              /\ IF ~q.user THEN Local(r, Respond(q, 403))
                 ELSE Local(r, [q EXCEPT !.pc = "removeProductTag"])
         [] q.pc = "removeProductTag" ->
              (* storage.ts:351-355: the links are deleted, or the store   *)
              (* reports an error, which removeProductTag throws and       *)
              (* deleteProduct passes on before it reaches its own delete  *)
              /\ UNCHANGED <<outside, ledger>>
              /\ \/ /\ UNCHANGED catalog
                    /\ Local(r, Respond(q, 500))
                 \/ /\ productTags' = RemoveProductTag(q.id)
                    /\ UNCHANGED <<products, nextProductId, categories,
                                   nextCategoryId, tags, nextTagId,
                                   categoryTags>>
                    /\ Wrote(r, [q EXCEPT !.pc = "deleteProduct",
                                          !.hadTags = GetProductTags(q.id)])
         [] q.pc = "deleteProduct" ->
              (* storage.ts:310-313: the row is deleted, no row matching   *)
              (* is not an error, and deleteProduct returns true; an error *)
              (* of the store is thrown                                    *)
              /\ UNCHANGED <<outside, ledger>>
              /\ \/ /\ UNCHANGED catalog
                    /\ Local(r, Respond(q, 500))
                 \/ /\ products' = [products EXCEPT ![q.id] =
                          [live |-> FALSE, stockQuantity |-> 0,
                           categoryId |-> 0]]
                    /\ UNCHANGED <<nextProductId, categories, nextCategoryId,
                                   tags, nextTagId, productTags, categoryTags>>
                    /\ Wrote(r, Respond(q, 204))
         [] OTHER -> FALSE

----------------------------------------------------------------------------
(* Product-tag and category-tag links: routes.ts:39-105 *)

(* routes.ts:39-48 *)
PostProductTags(r) ==
    /\ IsRoute(r, "POST", <<"api", "product-tags">>)
    /\ LET q == req[r]
           p == Get(q.body.productId)
           t == Get(q.body.tagId)
       IN
       CASE q.pc = "handler" ->
              /\ UNCHANGED <<store, outside>>
              /\ IF ~q.user THEN Local(r, Respond(q, 403))
                 ELSE Local(r, [q EXCEPT !.pc = "addProductTag"])
         [] q.pc = "addProductTag" ->
              /\ UNCHANGED <<outside, ledger>>
              /\ IF AddProductTagThrows(p, t)
                 THEN /\ UNCHANGED catalog
                      /\ Local(r, Respond(q, 500))
                 ELSE /\ productTags' = AddProductTag(p, t)
                      /\ UNCHANGED <<products, nextProductId, categories,
                                     nextCategoryId, tags, nextTagId,
                                     categoryTags>>
                      /\ Wrote(r, Respond(q, 200))
         [] OTHER -> FALSE

(* routes.ts:50-59 *)
DeleteProductTags(r) ==
    /\ IsRoute(r, "DELETE", <<"api", "product-tags", ":id">>)
    /\ LET q == req[r] IN
       CASE q.pc = "handler" ->
              /\ UNCHANGED <<store, outside>>
              /\ IF ~q.user THEN Local(r, Respond(q, 403))
                 ELSE Local(r, [q EXCEPT !.pc = "removeProductTag"])
         [] q.pc = "removeProductTag" ->
              /\ UNCHANGED <<outside, ledger>>
              /\ productTags' = RemoveProductTag(q.id)
              /\ UNCHANGED <<products, nextProductId, categories,
                             nextCategoryId, tags, nextTagId, categoryTags>>
              /\ Wrote(r, Respond(q, 204))
         [] OTHER -> FALSE

(* routes.ts:74-94 *)
PostCategoryTags(r) ==
    /\ IsRoute(r, "POST", <<"api", "category-tags">>)
    /\ LET q == req[r]
           c == Get(q.body.categoryId)
           t == Get(q.body.tagId)
       IN
       CASE q.pc = "handler" ->
              /\ UNCHANGED <<store, outside>>
              /\ IF ~q.user THEN Local(r, Respond(q, 403))
                 ELSE Local(r, [q EXCEPT !.pc = "addCategoryTag"])
         [] q.pc = "addCategoryTag" ->
              /\ UNCHANGED <<outside, ledger>>
              /\ IF AddCategoryTagThrows(c, t)
                 THEN /\ UNCHANGED catalog
                      /\ Local(r, Respond(q, 500))
                 ELSE /\ categoryTags' = AddCategoryTag(c, t)
                      /\ UNCHANGED <<products, nextProductId, categories,
                                     nextCategoryId, tags, nextTagId,
                                     productTags>>
                      /\ Wrote(r, [q EXCEPT !.pc = "getProductsByCategory"])
         [] q.pc = "getProductsByCategory" ->
              /\ UNCHANGED <<store, outside>>
              /\ LET got == [q EXCEPT
                               !.todo = SetToSeq(GetProductsByCategory(c))]
                 IN  IF got.todo # <<>>
                     THEN Local(r, [got EXCEPT !.pc = "inherit"])
                     ELSE Local(r, Respond(got, 200))
         [] q.pc = "inherit" ->
              (* routes.ts:83-87: an error of addProductTag is logged only *)
              /\ UNCHANGED <<outside, ledger>>
              /\ productTags' =
                    IF AddProductTagThrows(Head(q.todo), t) THEN productTags
                    ELSE AddProductTag(Head(q.todo), t)
              /\ UNCHANGED <<products, nextProductId, categories,
                             nextCategoryId, tags, nextTagId, categoryTags>>
              /\ LET rest == [q EXCEPT !.todo = Tail(q.todo)]
                 IN  IF rest.todo # <<>> THEN Wrote(r, rest)
                     ELSE Wrote(r, Respond(rest, 200))
         [] OTHER -> FALSE

(* routes.ts:96-105 *)
DeleteCategoryTags(r) ==
    /\ IsRoute(r, "DELETE", <<"api", "category-tags", ":id">>)
    /\ LET q == req[r] IN
       CASE q.pc = "handler" ->
              /\ UNCHANGED <<store, outside>>
              /\ IF ~q.user THEN Local(r, Respond(q, 403))
                 ELSE Local(r, [q EXCEPT !.pc = "removeCategoryTag"])
         [] q.pc = "removeCategoryTag" ->
              /\ UNCHANGED <<outside, ledger>>
              /\ categoryTags' = RemoveCategoryTag(q.id)
              /\ UNCHANGED <<products, nextProductId, categories,
                             nextCategoryId, tags, nextTagId, productTags>>
              /\ Wrote(r, Respond(q, 204))
         [] OTHER -> FALSE

----------------------------------------------------------------------------
(* Categories: routes.ts:110-185, storage.ts:362-432 *)

(* insertCategorySchema, insertTagSchema and their .partial() *)
NameSlugSchemaOk(b) == StrMin1(b.name) /\ StrMin1(b.slug)
PartialNameSlugSchemaOkMutant(b) == TRUE
PartialNameSlugSchemaOk(b) == OptStrMin1(b.name) /\ OptStrMin1(b.slug)

(* The loop over the tags array of a category body; POST answers 201       *)
(* after it, PATCH goes on to getCategories.                               *)
AfterCategoryTags(rec) ==
    IF rec.todo # <<>> THEN [rec EXCEPT !.pc = "addCategoryTags"]
    ELSE IF rec.method = "POST" THEN Respond(rec, 201)
    ELSE [rec EXCEPT !.pc = "getCategories"]

AddCategoryTagsStep(r) ==
    LET q == req[r] IN
    /\ q.pc = "addCategoryTags"
    /\ UNCHANGED <<outside, ledger>>
    /\ IF AddCategoryTagThrows(q.cat, Head(q.todo))
       THEN /\ UNCHANGED catalog
            /\ Local(r, Respond(q, 500))
       ELSE /\ categoryTags' = AddCategoryTag(q.cat, Head(q.todo))
            /\ UNCHANGED <<products, nextProductId, categories,
                           nextCategoryId, tags, nextTagId, productTags>>
            /\ Wrote(r, AfterCategoryTags([q EXCEPT !.todo = Tail(q.todo)]))

(* routes.ts:119-142, storage.ts:383-403 *)
PostCategories(r) ==
    /\ IsRoute(r, "POST", <<"api", "categories">>)
    /\ LET q == req[r] IN
       CASE q.pc = "handler" ->
              /\ UNCHANGED <<store, outside>>
              /\ IF ~q.user THEN Local(r, Respond(q, 403))
                 ELSE IF ~NameSlugSchemaOk(q.body)
                 THEN Local(r, Respond(q, 400))
                 ELSE Local(r, [q EXCEPT !.pc = "createCategory"])
         [] q.pc = "createCategory" ->
              /\ nextCategoryId <= MaxCategories
              /\ UNCHANGED <<outside, ledger>>
              /\ categories' = categories \cup {nextCategoryId}
              /\ nextCategoryId' = nextCategoryId + 1
              /\ UNCHANGED <<products, nextProductId, tags, nextTagId,
                             productTags, categoryTags>>
              /\ Wrote(r, AfterCategoryTags([q EXCEPT
                    !.cat = nextCategoryId,
                    !.todo = IF IsSome(q.body.tags)
                             THEN Get(q.body.tags) ELSE <<>>]))
         [] OTHER -> AddCategoryTagsStep(r)

(* routes.ts:144-174, storage.ts:405-426 *)
PatchCategories(r) ==
    /\ IsRoute(r, "PATCH", <<"api", "categories", ":id">>)
    /\ LET q == req[r] IN
       CASE q.pc = "handler" ->
              /\ UNCHANGED <<store, outside>>
              /\ IF ~q.user THEN Local(r, Respond(q, 403))
                 ELSE IF ~PartialNameSlugSchemaOk(q.body)
                 THEN Local(r, Respond(q, 400))
                 ELSE Local(r, [q EXCEPT !.pc = "updateCategory"])
         [] q.pc = "updateCategory" ->
              /\ UNCHANGED <<store, outside>>
              /\ IF q.id \notin categories THEN Local(r, Respond(q, 500))
                 ELSE IF IsSome(q.body.tags)
                 THEN Local(r, [q EXCEPT !.pc = "removeCategoryTag",
                                         !.cat = q.id])
                 ELSE Local(r, [q EXCEPT !.pc = "getCategories",
                                         !.cat = q.id])
         [] q.pc = "removeCategoryTag" ->
              /\ UNCHANGED <<outside, ledger>>
              /\ categoryTags' = RemoveCategoryTag(q.id)
              /\ UNCHANGED <<products, nextProductId, categories,
                             nextCategoryId, tags, nextTagId, productTags>>
              /\ Wrote(r, AfterCategoryTags(
                    [q EXCEPT !.todo = Get(q.body.tags)]))
         [] q.pc = "getCategories" ->
              /\ UNCHANGED <<store, outside>>
              /\ Local(r, Respond(q, 200))
         [] OTHER -> AddCategoryTagsStep(r)

(* The database on the deletion of a categories row.  products and        *)
(* category_tags reference categories; what their foreign keys do ON       *)
(* DELETE is fixed by the database, not by the server: a key that holds    *)
(* the row makes the delete fail, a key that lets go of it removes the     *)
(* row, with the links of the category, and leaves the products that       *)
(* named it without a category.                                            *)
CategoryHeld(c) ==
    GetProductsByCategory(c) # {} \/ \E l \in categoryTags : l[1] = c
CategoryTagsWithout(c) == {l \in categoryTags : l[1] # c}
ProductsWithout(c) ==
    [p \in ProductIds |->
        IF products[p].live /\ products[p].categoryId = c
        THEN [products[p] EXCEPT !.categoryId = 0] ELSE products[p]]

(* routes.ts:176-185, storage.ts:428-432 *)
DeleteCategories(r) ==
    /\ IsRoute(r, "DELETE", <<"api", "categories", ":id">>)
    /\ LET q == req[r] IN
       CASE q.pc = "handler" ->
              /\ UNCHANGED <<store, outside>>
              /\ IF ~q.user THEN Local(r, Respond(q, 403))
                 ELSE Local(r, [q EXCEPT !.pc = "deleteCategory"])
         [] q.pc = "deleteCategory" ->
              /\ UNCHANGED <<outside, ledger>>
              /\ \/ /\ CategoryHeld(q.id)
                    /\ UNCHANGED catalog
                    /\ Local(r, Respond(q, 500))
                 \/ /\ categories' = categories \ {q.id}
                    /\ categoryTags' = CategoryTagsWithout(q.id)
                    /\ products' = ProductsWithout(q.id)
                    /\ UNCHANGED <<nextProductId, nextCategoryId, tags,
                                   nextTagId, productTags>>
                    /\ Wrote(r, Respond(q, 204))
         [] OTHER -> FALSE

(* routes.ts:110-117 *)
GetCategories(r) ==
    /\ IsRoute(r, "GET", <<"api", "categories">>)
    /\ req[r].pc = "handler"
    /\ UNCHANGED <<store, outside>>
    /\ Local(r, Respond(req[r], 200))

----------------------------------------------------------------------------
(* Tags: routes.ts:367-412, storage.ts:479-556 *)

(* storage.ts:490-494 and 515-527: the rows the duplicate check selects *)
TagMatches(b, except) ==
    {t \in tags : /\ t.id # except
                  /\ \/ IsSome(b.name) /\ t.name = Get(b.name)
                     \/ IsSome(b.slug) /\ t.slug = Get(b.slug)}

(* The check before createTag's insert and updateTag's update: one match   *)
(* throws "already exists", several make maybeSingle fail; the handlers    *)
(* of /api/tags answer 500 to every error.                                 *)
CheckTagStep(r, except, nextPc) ==
    LET q == req[r] IN
    /\ UNCHANGED <<store, outside>>
    /\ IF TagMatches(q.body, except) # {} THEN Local(r, Respond(q, 500))
       ELSE Local(r, [q EXCEPT !.pc = nextPc])

(* routes.ts:376-386, storage.ts:488-510 *)
PostTags(r) ==
    /\ IsRoute(r, "POST", <<"api", "tags">>)
    /\ LET q == req[r] IN
       CASE q.pc = "handler" ->
              /\ UNCHANGED <<store, outside>>
              /\ IF ~q.user THEN Local(r, Respond(q, 403))
                 ELSE IF ~NameSlugSchemaOk(q.body)
                 THEN Local(r, Respond(q, 400))
                 ELSE Local(r, [q EXCEPT !.pc = "checkTag"])
         [] q.pc = "checkTag" -> CheckTagStep(r, 0, "insertTag")
         [] q.pc = "insertTag" ->
              /\ nextTagId <= MaxTags
              /\ UNCHANGED <<outside, ledger>>
              /\ tags' = tags \cup {[id |-> nextTagId,
                                     name |-> Get(q.body.name),
                                     slug |-> Get(q.body.slug)]}
              /\ nextTagId' = nextTagId + 1
              /\ UNCHANGED <<products, nextProductId, categories,
                             nextCategoryId, productTags, categoryTags>>
              /\ Wrote(r, Respond(q, 201))
         [] OTHER -> FALSE

(* routes.ts:388-401, storage.ts:512-550 *)
PatchTags(r) ==
    /\ IsRoute(r, "PATCH", <<"api", "tags", ":id">>)
    /\ LET q == req[r] IN
       CASE q.pc = "handler" ->
              /\ UNCHANGED <<store, outside>>
              /\ IF ~q.user THEN Local(r, Respond(q, 403))
                 ELSE IF ~PartialNameSlugSchemaOk(q.body)
                 THEN Local(r, Respond(q, 400))
                 ELSE IF IsSome(q.body.name) \/ IsSome(q.body.slug)
                 THEN Local(r, [q EXCEPT !.pc = "checkTag"])
                 ELSE Local(r, [q EXCEPT !.pc = "updateTag"])
         [] q.pc = "checkTag" -> CheckTagStep(r, q.id, "updateTag")
         [] q.pc = "updateTag" ->
              /\ UNCHANGED <<outside, ledger>>
              /\ IF q.id \notin TagIds
                 THEN /\ UNCHANGED catalog
                      /\ Local(r, Respond(q, 500))
                 ELSE LET old == CHOOSE t \in tags : t.id = q.id
                          new == [id |-> q.id,
                                  name |-> IF IsSome(q.body.name)
                                           THEN Get(q.body.name) ELSE old.name,
                                  slug |-> IF IsSome(q.body.slug)
                                           THEN Get(q.body.slug) ELSE old.slug]
                      IN
                      /\ tags' = (tags \ {old}) \cup {new}
                      /\ UNCHANGED <<products, nextProductId, categories,
                                     nextCategoryId, nextTagId, productTags,
                                     categoryTags>>
                      /\ Wrote(r, Respond(q, 200))
         [] OTHER -> FALSE

(* The database on the deletion of a tags row: product_tags and           *)
(* category_tags reference tags; a key that holds the row makes the        *)
(* delete fail, a key that lets go of it removes the links with the row.   *)
TagHeld(t) == \E l \in productTags \cup categoryTags : l[2] = t
LinksWithoutTag(links, t) == {l \in links : l[2] # t}

(* routes.ts:403-412, storage.ts:552-556 *)
DeleteTags(r) ==
    /\ IsRoute(r, "DELETE", <<"api", "tags", ":id">>)
    /\ LET q == req[r] IN
       CASE q.pc = "handler" ->
              /\ UNCHANGED <<store, outside>>
              /\ IF ~q.user THEN Local(r, Respond(q, 403))
                 ELSE Local(r, [q EXCEPT !.pc = "deleteTag"])
         [] q.pc = "deleteTag" ->
              /\ UNCHANGED <<outside, ledger>>
              /\ \/ /\ TagHeld(q.id)
                    /\ UNCHANGED catalog
                    /\ Local(r, Respond(q, 500))
                 \/ /\ tags' = {t \in tags : t.id # q.id}
                    /\ productTags' = LinksWithoutTag(productTags, q.id)
                    /\ categoryTags' = LinksWithoutTag(categoryTags, q.id)
                    /\ UNCHANGED <<products, nextProductId, categories,
                                   nextCategoryId, nextTagId>>
                    /\ Wrote(r, Respond(q, 204))
         [] OTHER -> FALSE

(* routes.ts:367-374 *)
GetTags(r) ==
    /\ IsRoute(r, "GET", <<"api", "tags">>)
    /\ req[r].pc = "handler"
    /\ UNCHANGED <<store, outside>>
    /\ Local(r, Respond(req[r], 200))

----------------------------------------------------------------------------
(* The storefront's cart: client/src/hooks/use-cart.tsx *)

(* A CartItem: the product, by its id, and a quantity *)
CartItem(p, n) == [product |-> p, quantity |-> n]

(* CartAction values; quantity of ADD_ITEM is optional *)
AddItemAction(p, o) == [type |-> "ADD_ITEM", product |-> p, quantity |-> o]
RemoveItemAction(p) ==
    [type |-> "REMOVE_ITEM", product |-> p, quantity |-> None]
UpdateQuantityAction(p, n) ==
    [type |-> "UPDATE_QUANTITY", product |-> p, quantity |-> Some(n)]
ClearCartAction == [type |-> "CLEAR_CART", product |-> 0, quantity |-> None]
NoAction == [type |-> "", product |-> 0, quantity |-> None]

(* action.quantity || 1: an absent quantity and the quantity 0 give 1 *)
QuantityOr1(o) == IF IsSome(o) /\ Get(o) # 0 THEN Get(o) ELSE 1

(* state.items.find(item => item.product.id === id) found an item *)
InCart(items, p) == \E i \in 1..Len(items) : items[i].product = p

CartQuantity(items, p) ==
    LET i == CHOOSE k \in 1..Len(items) : items[k].product = p
    IN  items[i].quantity

(* Array.prototype.filter *)
RECURSIVE FilterOut(_, _)
FilterOut(items, p) ==
    IF items = <<>> THEN <<>>
    ELSE IF Head(items).product = p THEN FilterOut(Tail(items), p)
    ELSE <<Head(items)>> \o FilterOut(Tail(items), p)

(* use-cart.tsx:26-44, the case ADD_ITEM *)
AddItemCaseMutant(items, action) ==
    Append(items, CartItem(action.product, QuantityOr1(action.quantity)))
AddItemCase(items, action) ==
    IF InCart(items, action.product)
    THEN [i \in 1..Len(items) |->
            IF items[i].product = action.product
            THEN [items[i] EXCEPT !.quantity =
                     items[i].quantity + QuantityOr1(action.quantity)]
            ELSE items[i]]
    ELSE Append(items, CartItem(action.product, QuantityOr1(action.quantity)))

(* use-cart.tsx:24-64 *)
cartReducer(items, action) ==
    CASE action.type = "ADD_ITEM" -> AddItemCase(items, action)
      [] action.type = "REMOVE_ITEM" -> FilterOut(items, action.product)
      [] action.type = "UPDATE_QUANTITY" ->
           [i \in 1..Len(items) |->
              IF items[i].product = action.product
              THEN [items[i] EXCEPT !.quantity = Get(action.quantity)]
              ELSE items[i]]
      [] action.type = "CLEAR_CART" -> <<>>
      [] OTHER -> items

(* dispatch(action): the reducer's result is the new state *)
Dispatch(action) ==
    /\ cart' = cartReducer(cart, action)
    /\ dispatched' = action
    /\ UNCHANGED <<store, auth, req>>

----------------------------------------------------------------------------
(* The store the server is started on, and the requests of the order flow *)

SeedTagRows == {[id |-> 1, name |-> "New", slug |-> "new"],
                [id |-> 2, name |-> "Sale", slug |-> "sale"]}

Init ==
    /\ products = [p \in ProductIds |->
                     IF p \in SeedProducts
                     THEN [live |-> TRUE, stockQuantity |-> InitStock,
                           categoryId |-> 0]
                     ELSE [live |-> FALSE, stockQuantity |-> 0,
                           categoryId |-> 0]]
    /\ nextProductId = Cardinality(SeedProducts) + 1
    /\ categories = SeedCategories
    /\ nextCategoryId = Cardinality(SeedCategories) + 1
    /\ tags = SeedTagRows
    /\ nextTagId = Cardinality(SeedTagRows) + 1
    /\ productTags = {}
    /\ categoryTags = {<<1, 1>>}
    /\ orders = {}
    /\ nextOrderId = 1
    /\ orderItems = {}
    /\ session = NoToken
    /\ validTokens = {}
    /\ req = [r \in Slots |-> IdleReq]
    /\ cart = <<>>
    /\ dispatched = NoAction

Clients == {"admin", "anon"}

(* Items as a client may send them: with an orderId, as the schema asks,  *)
(* or without one, as the storefront sends them.                           *)
Item(o, p, n) ==
    [orderId |-> o, productId |-> Some(p), quantity |-> Some(n),
     price |-> Some(50)]

ItemLists(o) ==
    {<<Item(o, 1, n)>> : n \in 1..MaxQty} \cup
    {<<Item(o, 1, MaxQty), Item(o, p, MaxQty)>> : p \in ProductIds}

OrderBody(st, l) ==
    [EmptyBody EXCEPT !.customerWhatsapp = Some("9779800000000"),
                      !.orderStatus = st, !.items = Some(l)]

OrderBodies ==
    {OrderBody(st, l) : st \in {None, Some("Completed")},
                        l \in ItemLists(Some(0))}
    \cup {OrderBody(None, <<Item(None, 1, n)>>) : n \in 1..MaxQty}

StockBodies ==
    {[EmptyBody EXCEPT !.name = Some("Sneaker"), !.price = Some(50),
                       !.stockQuantity = Some(n)] : n \in {InitStock}}

ArrivePostOrders(r) ==
    \E c \in Clients, b \in OrderBodies :
        Arrive(r, "POST", <<"api", "orders">>, 0, c, b)

ArriveGetOrders(r) ==
    \E c \in Clients : Arrive(r, "GET", <<"api", "orders">>, 0, c, EmptyBody)

ArriveDeleteOrders(r) ==
    \E c \in Clients, o \in 1..MaxOrders :
        Arrive(r, "DELETE", <<"api", "orders", ":id">>, o, c, EmptyBody)

ArrivePostProducts(r) ==
    \E c \in Clients, b \in StockBodies :
        Arrive(r, "POST", <<"api", "products">>, 0, c, b)

ArrivePatchProducts(r) ==
    \E c \in Clients, b \in StockBodies, p \in ProductIds :
        Arrive(r, "PATCH", <<"api", "products", ":id">>, p, c, b)

(* The order flow, one request at a time: the tasks of one createOrder     *)
(* still run side by side.                                                  *)
NextOrders ==
    \/ Login
    \/ Logout
    \/ TokenExpires
    \/ \E r \in {1} :
         \/ ArrivePostOrders(r)
         \/ ArriveGetOrders(r)
         \/ ArrivePostProducts(r)
         \/ ArrivePatchProducts(r)
         \/ SessionGate(r)
         \/ PostOrders(r)
         \/ \E i \in 1..2 : CreateOrderItem(r, i)
         \/ GetOrders(r)
         \/ ArriveDeleteOrders(r)
         \/ DeleteOrders(r)
         \/ PostProducts(r)
         \/ PatchProducts(r)
         \/ Finish(r)

SpecOrders == Init /\ [][NextOrders]_vars

(* Two checkouts in flight together, each for one item of product 1 *)
RaceBodies == {OrderBody(None, <<Item(Some(0), 1, n)>>) : n \in 1..MaxQty}

ArriveRace(r) ==
    \E b \in RaceBodies : Arrive(r, "POST", <<"api", "orders">>, 0, "admin", b)

NextRace ==
    \/ Login
    \/ \E r \in Slots :
         \/ ArriveRace(r)
         \/ SessionGate(r)
         \/ PostOrders(r)
         \/ CreateOrderItem(r, 1)
         \/ Finish(r)

SpecRace == Init /\ [][NextRace]_vars

----------------------------------------------------------------------------
(* The requests of the catalog: products, categories, tags and their links *)

(* The resources the gate is mounted on for the catalog: auth.ts:58-65 *)
CatalogResources ==
    {<<"api", "products">>, <<"api", "categories">>, <<"api", "tags">>}

Request(method, url, id, body) ==
    [method |-> method, url |-> url, id |-> id, body |-> body]

(* Product bodies: with or without a category, with or without a tags list *)
ProductBodies(base) ==
    {[base EXCEPT !.categoryId = c, !.tags = t] :
        c \in {None, Some(1)}, t \in {None, Some(<<2>>)}}

NewProductBody ==
    [EmptyBody EXCEPT !.name = Some("Sneaker"), !.price = Some(50),
                      !.stockQuantity = Some(InitStock)]

CategoryBodies(base) ==
    {[base EXCEPT !.tags = t] : t \in {None, Some(<<2>>)}}

NewCategoryBody ==
    [EmptyBody EXCEPT !.name = Some("Shoes"), !.slug = Some("shoes")]

TagBodies ==
    {[EmptyBody EXCEPT !.name = Some("Hot"), !.slug = Some("hot")],
     [EmptyBody EXCEPT !.name = Some("New"), !.slug = Some("new")]}

LinkBody == [EmptyBody EXCEPT !.productId = Some(1), !.categoryId = Some(1),
                              !.tagId = Some(2)]

CatalogRequests ==
    {Request("GET", u, 0, EmptyBody) :
        u \in {<<"api", "products">>, <<"api", "categories">>,
               <<"api", "tags">>}}
    \cup {Request("POST", <<"api", "products">>, 0, b) :
            b \in ProductBodies(NewProductBody)}
    \cup {Request("PATCH", <<"api", "products", ":id">>, 1, b) :
            b \in ProductBodies(EmptyBody)}
    \cup {Request("DELETE", <<"api", "products", ":id">>, i, EmptyBody) :
            i \in {2}}
    \cup {Request("POST", <<"api", "categories">>, 0, b) :
            b \in CategoryBodies(NewCategoryBody)}
    \cup {Request("PATCH", <<"api", "categories", ":id">>, 1, b) :
            b \in CategoryBodies(EmptyBody)}
    \cup {Request("DELETE", <<"api", "categories", ":id">>, i, EmptyBody) :
            i \in {2}}
    \cup {Request("POST", <<"api", "tags">>, 0, b) : b \in TagBodies}
    \cup {Request("PATCH", <<"api", "tags", ":id">>, 2,
                   [EmptyBody EXCEPT !.name = Some("Hot")])}
    \cup {Request("DELETE", <<"api", "tags", ":id">>, i, EmptyBody) :
            i \in {2}}
    \cup {Request("POST", u, 0, LinkBody) :
            u \in {<<"api", "product-tags">>, <<"api", "category-tags">>}}
    \cup {Request("DELETE", u, 1, EmptyBody) :
            u \in {<<"api", "product-tags", ":id">>,
                   <<"api", "category-tags", ":id">>}}

ArriveCatalog(r) ==
    \E c \in Clients, x \in CatalogRequests :
        Arrive(r, x.method, x.url, x.id, c, x.body)

NextCatalog ==
    \/ Login
    \/ TokenExpires
    \/ \E r \in {1} :
         \/ ArriveCatalog(r)
         \/ SessionGate(r)
         \/ GetProducts(r)
         \/ PostProducts(r)
         \/ PatchProducts(r)
         \/ DeleteProducts(r)
         \/ GetCategories(r)
         \/ PostCategories(r)
         \/ PatchCategories(r)
         \/ DeleteCategories(r)
         \/ GetTags(r)
         \/ PostTags(r)
         \/ PatchTags(r)
         \/ DeleteTags(r)
         \/ PostProductTags(r)
         \/ DeleteProductTags(r)
         \/ PostCategoryTags(r)
         \/ DeleteCategoryTags(r)
         \/ Finish(r)

SpecCatalog == Init /\ [][NextCatalog]_vars

(* The gate before the catalog: every method of the three resources, from  *)
(* a browser with a session and from one without.                           *)
GateRequests ==
    {Request("GET", u, 0, EmptyBody) : u \in CatalogResources}
    \cup {Request("POST", <<"api", "products">>, 0, NewProductBody),
          Request("PATCH", <<"api", "products", ":id">>, 1,
                  [EmptyBody EXCEPT !.stockQuantity = Some(InitStock)]),
          Request("DELETE", <<"api", "products", ":id">>, 2, EmptyBody),
          Request("POST", <<"api", "categories">>, 0, NewCategoryBody),
          Request("PATCH", <<"api", "categories", ":id">>, 1,
                  [EmptyBody EXCEPT !.tags = Some(<<2>>)]),
          Request("DELETE", <<"api", "categories", ":id">>, 2, EmptyBody),
          Request("PATCH", <<"api", "tags", ":id">>, 2,
                  [EmptyBody EXCEPT !.name = Some("Hot")]),
          Request("DELETE", <<"api", "tags", ":id">>, 2, EmptyBody)}
    \cup {Request("POST", <<"api", "tags">>, 0, b) : b \in TagBodies}

ArriveGate(r) ==
    \E c \in Clients, x \in GateRequests :
        Arrive(r, x.method, x.url, x.id, c, x.body)

NextGate ==
    \/ Login
    \/ Logout
    \/ TokenExpires
    \/ \E r \in {1} :
         \/ ArriveGate(r)
         \/ SessionGate(r)
         \/ GetProducts(r)
         \/ PostProducts(r)
         \/ PatchProducts(r)
         \/ DeleteProducts(r)
         \/ GetCategories(r)
         \/ PostCategories(r)
         \/ PatchCategories(r)
         \/ DeleteCategories(r)
         \/ GetTags(r)
         \/ PostTags(r)
         \/ PatchTags(r)
         \/ DeleteTags(r)
         \/ Finish(r)

SpecGate == Init /\ [][NextGate]_vars

(* Two tag requests in flight together: creations of the same tag and a    *)
(* rename of a seeded tag to the same name.                                *)
TagRaceRequests ==
    {Request("POST", <<"api", "tags">>, 0,
             [EmptyBody EXCEPT !.name = Some("Hot"), !.slug = Some("hot")]),
     Request("PATCH", <<"api", "tags", ":id">>, 2,
             [EmptyBody EXCEPT !.name = Some("Hot")])}

ArriveTagRace(r) ==
    \E x \in TagRaceRequests :
        Arrive(r, x.method, x.url, x.id, "admin", x.body)

NextTagRace ==
    \/ Login
    \/ \E r \in Slots :
         \/ ArriveTagRace(r)
         \/ SessionGate(r)
         \/ PostTags(r)
         \/ PatchTags(r)
         \/ Finish(r)

SpecTagRace == Init /\ [][NextTagRace]_vars

(* Deletions of categories: of the seeded one, which products can be put   *)
(* in and which has a tag, and of a new one.                                *)
CategoryDeleteRequests ==
    {Request("GET", <<"api", "categories">>, 0, EmptyBody),
     Request("POST", <<"api", "categories">>, 0, NewCategoryBody),
     Request("PATCH", <<"api", "products", ":id">>, 1,
             [EmptyBody EXCEPT !.categoryId = Some(1)]),
     Request("PATCH", <<"api", "categories", ":id">>, 1,
             [EmptyBody EXCEPT !.tags = Some(<<>>)])}
    \cup {Request("DELETE", <<"api", "categories", ":id">>, i, EmptyBody) :
            i \in 1..MaxCategories}

ArriveCategoryDelete(r) ==
    \E c \in Clients, x \in CategoryDeleteRequests :
        Arrive(r, x.method, x.url, x.id, c, x.body)

NextCategoryDelete ==
    \/ Login
    \/ Logout
    \/ TokenExpires
    \/ \E r \in {1} :
         \/ ArriveCategoryDelete(r)
         \/ SessionGate(r)
         \/ PatchProducts(r)
         \/ GetCategories(r)
         \/ PostCategories(r)
         \/ PatchCategories(r)
         \/ DeleteCategories(r)
         \/ Finish(r)

SpecCategoryDelete == Init /\ [][NextCategoryDelete]_vars

(* The ledger alone: orders of two items, the second of which may name a   *)
(* product that does not exist, and deletions of orders.                    *)
LedgerRequests ==
    {Request("POST", <<"api", "orders">>, 0,
             OrderBody(None, <<Item(Some(0), 1, 1), Item(Some(0), p, 1)>>)) :
        p \in ProductIds}
    \cup {Request("DELETE", <<"api", "orders", ":id">>, o, EmptyBody) :
            o \in 1..MaxOrders}

ArriveLedger(r) ==
    \E x \in LedgerRequests :
        Arrive(r, x.method, x.url, x.id, "admin", x.body)

NextLedger ==
    \/ Login
    \/ \E r \in {1} :
         \/ ArriveLedger(r)
         \/ SessionGate(r)
         \/ PostOrders(r)
         \/ \E i \in 1..2 : CreateOrderItem(r, i)
         \/ DeleteOrders(r)
         \/ Finish(r)

SpecLedger == Init /\ [][NextLedger]_vars

(* Re-tagging: edits of product 1 that carry a tags list, between edits of *)
(* the tags of category 1.                                                 *)
RetagRequests ==
    {Request("PATCH", <<"api", "products", ":id">>, 1,
             [EmptyBody EXCEPT !.categoryId = c, !.tags = Some(l)]) :
        c \in {None, Some(1)}, l \in {<<>>, <<2>>, <<1, 2>>}}
    \cup {Request("PATCH", <<"api", "categories", ":id">>, 1,
                  [EmptyBody EXCEPT !.tags = Some(l)]) : l \in {<<>>, <<2>>}}

ArriveRetag(r) ==
    \E x \in RetagRequests :
        Arrive(r, x.method, x.url, x.id, "admin", x.body)

NextRetag ==
    \/ Login
    \/ \E r \in {1} :
         \/ ArriveRetag(r)
         \/ SessionGate(r)
         \/ PatchProducts(r)
         \/ PatchCategories(r)
         \/ Finish(r)

SpecRetag == Init /\ [][NextRetag]_vars

----------------------------------------------------------------------------
(* Claims about the order ledger *)

IsPostOrders(r) == IsRoute(r, "POST", <<"api", "orders">>)
IsGetOrders(r) == IsRoute(r, "GET", <<"api", "orders">>)

RECURSIVE OrderedQty(_, _)
OrderedQty(items, p) ==
    IF items = <<>> THEN 0
    ELSE (IF Head(items).productId = p THEN Head(items).quantity ELSE 0)
         + OrderedQty(Tail(items), p)

RowsOf(o) == {row \in orderItems : row.orderId = o}

(* C1: a createOrder that returned, with no other request writing while    *)
(* it ran, has created one order_items row per submitted item and has      *)
(* lowered each product's stock by the quantities ordered of it.           *)
C1_ItemsAndStock ==
    \A r \in Slots :
        (IsPostOrders(r) /\ req[r].pc = "done" /\ req[r].resp = 201
            /\ req[r].alone)
        => /\ Cardinality(RowsOf(req[r].orderId)) = Len(req[r].items)
           /\ \A p \in LiveProducts :
                products[p].stockQuantity =
                    req[r].before[p] - OrderedQty(req[r].items, p)

(* C2: the write of an order item stores the stock that item read earlier  *)
(* minus its quantity, whatever has been written to the row in between;    *)
(* so of two checkouts that both read before either writes, one decrement  *)
(* is lost.                                                                *)
C2_WriteFromEarlierRead ==
    [][\A r \in Slots : \A i \in 1..Len(req[r].itemPc) :
          (req[r].itemPc[i] = "write" /\ req'[r].itemPc[i] = "done")
          => products'[req[r].items[i].productId].stockQuantity =
                req[r].itemRead[i] - req[r].items[i].quantity]_vars

(* C2: both checkouts answered 201 and the stock is above the initial      *)
(* stock minus the two quantities.                                         *)
C2_LostUpdate ==
    /\ \A r \in Slots : IsPostOrders(r) /\ req[r].pc = "done"
                        /\ req[r].resp = 201
    /\ products[1].stockQuantity >
          InitStock - (req[1].items[1].quantity + req[2].items[1].quantity)

(* C3: no product has a negative stock. *)
C3_StockNeverNegative ==
    \A p \in LiveProducts : products[p].stockQuantity >= 0

(* C4: every order row is inserted with status "New" (no handler of the    *)
(* model changes the status of a row afterwards).                          *)
C4_InsertedAsNew == \A o \in orders : o.orderStatus = "New"

(* The submission of the specification: customerWhatsapp and items of      *)
(* {productId, quantity, price}, none with an orderId.                     *)
SpecFormBody(b) ==
    /\ StrMin1(b.customerWhatsapp)
    /\ IsSome(b.items)
    /\ Get(b.items) # <<>>
    /\ \A i \in 1..Len(Get(b.items)) :
         LET it == Get(b.items)[i] IN
         /\ ~IsSome(it.orderId)
         /\ IsSome(it.productId)
         /\ NumMin(it.quantity, 1)
         /\ NumMin(it.price, 0)

(* C5: a submission of that form that passed the gate is not refused by    *)
(* the validation: it is handed to createOrder and answered 201.           *)
C5_SpecFormAccepted ==
    \A r \in Slots :
        (IsPostOrders(r) /\ req[r].pc = "done" /\ req[r].resp # 401
            /\ SpecFormBody(req[r].body))
        => req[r].resp = 201

(* C7: a GET /api/orders whose session held no token the provider accepts  *)
(* is answered 401, never with the orders.                                 *)
C7_GetOrdersGated ==
    \A r \in Slots :
        (IsGetOrders(r) /\ req[r].pc = "done" /\ ~req[r].sessOK)
        => req[r].resp = 401

(* C8: a checkout sent without a session, with a body the handler's        *)
(* validation accepts, is not answered 401 by the gate.                    *)
C8_AnonymousCheckout ==
    \A r \in Slots :
        (IsPostOrders(r) /\ req[r].pc = "done" /\ req[r].client = "anon"
            /\ OrderSchemaOk(req[r].body) /\ IsSome(req[r].body.items)
            /\ ItemsSchemaOk(Get(req[r].body.items)))
        => req[r].resp # 401

----------------------------------------------------------------------------
(* Claims about the catalog *)

OnCatalog(r) == \E m \in CatalogResources : IsPrefix(m, req[r].url)

Answered(r) == req[r].pc = "done"

(* C6: a request on /api/products, /api/categories or /api/tags whose      *)
(* session held no token the provider accepts is served when it is a GET   *)
(* (200); when it is a POST, PATCH or DELETE it writes nothing to the      *)
(* store at any step and is answered 401.                                  *)
C6_PublicReadGatedWrite ==
    \A r \in Slots :
        (OnCatalog(r) /\ req[r].pc \notin {"idle", "gate"} /\ ~req[r].sessOK)
        => /\ ~req[r].wrote
           /\ Answered(r) =>
                req[r].resp = IF req[r].method = "GET" THEN 200 ELSE 401

(* C6: a DELETE sent with a session whose token the provider no longer     *)
(* accepts has been answered 401.                                          *)
C6_ExpiredSessionRefused ==
    \E r \in Slots :
        /\ OnCatalog(r) /\ Answered(r)
        /\ req[r].method = "DELETE" /\ req[r].client = "admin"
        /\ session # NoToken /\ ~req[r].sessOK
        /\ req[r].resp = 401 /\ ~req[r].wrote

(* The tags a product request names itself *)
ExplicitTags(b) ==
    IF IsSome(b.tags) THEN {Get(b.tags)[i] : i \in 1..Len(Get(b.tags))}
    ELSE {}

AssignsCategory(r) ==
    /\ \/ IsRoute(r, "POST", <<"api", "products">>)
       \/ IsRoute(r, "PATCH", <<"api", "products", ":id">>)
    /\ IsSome(req[r].body.categoryId)
    /\ Get(req[r].body.categoryId) # 0

(* C9: when a POST or PATCH of a product that names category C has been    *)
(* answered 201 or 200, with no other request writing meanwhile, the       *)
(* product's tags contain every tag of C and every tag the body named.     *)
C9_CategoryTagsInherited ==
    \A r \in Slots :
        (AssignsCategory(r) /\ Answered(r) /\ req[r].resp \in {200, 201}
            /\ req[r].alone)
        => (GetCategoryTags(Get(req[r].body.categoryId))
              \cup ExplicitTags(req[r].body))
           \subseteq GetProductTags(req[r].pid)

----------------------------------------------------------------------------
(* Claims about tags *)

IsPostTags(r) == IsRoute(r, "POST", <<"api", "tags">>)
IsPatchTags(r) == IsRoute(r, "PATCH", <<"api", "tags", ":id">>)

(* A tag request that passed the gate and the schema, found its name or    *)
(* slug on a row of another tag, and wrote nothing.                        *)
TagCollision(r) ==
    /\ Answered(r) /\ req[r].user /\ req[r].alone /\ ~req[r].wrote
    /\ \/ /\ IsPostTags(r)
          /\ NameSlugSchemaOk(req[r].body)
          /\ TagMatches(req[r].body, 0) # {}
       \/ /\ IsPatchTags(r)
          /\ PartialNameSlugSchemaOk(req[r].body)
          /\ TagMatches(req[r].body, req[r].id) # {}

(* C11: a createTag or updateTag that collides with the name or the slug   *)
(* of another tag is answered 409 (and has left the tags as they were).    *)
C11_TagConflictIs409 ==
    \A r \in Slots : TagCollision(r) => req[r].resp = 409

(* C12: no two distinct tag rows share a name, and no two share a slug.    *)
C12_TagNamesUnique ==
    \A t \in tags : \A u \in tags :
        t.id # u.id => (t.name # u.name /\ t.slug # u.slug)

----------------------------------------------------------------------------
(* Claims about categories *)

(* C13: the step in which deleteCategory returns fails and keeps the row   *)
(* when a product names the category; otherwise it answers 204, the row    *)
(* is gone and no category_tags link names the category.                   *)
C13_DeleteCategoryGuarded ==
    [][\A r \in Slots :
         (/\ IsRoute(r, "DELETE", <<"api", "categories", ":id">>)
          /\ req[r].pc = "deleteCategory" /\ req'[r].pc = "done")
         => IF GetProductsByCategory(req[r].id) # {}
            THEN /\ req'[r].resp >= 400
                 /\ req[r].id \in categories'
            ELSE /\ req'[r].resp = 204
                 /\ req[r].id \notin categories'
                 /\ \A l \in categoryTags' : l[1] # req[r].id]_vars

----------------------------------------------------------------------------
(* Claims about the ownership of order items and about failures *)

OrderIds == {o.id : o \in orders}
IsDeleteOrders(r) == IsRoute(r, "DELETE", <<"api", "orders", ":id">>)
ItemFailed(q) == \E i \in 1..Len(q.itemPc) : q.itemPc[i] = "failed"

(* C14: every order_items row names an order that exists. *)
C14_ItemsHaveOrder == \A row \in orderItems : row.orderId \in OrderIds

(* C14: a createOrder that failed part-way has been answered 500 and has   *)
(* left rows of its order behind.                                          *)
C14_PartialOrderLeft ==
    \E r \in Slots :
        /\ IsPostOrders(r) /\ Answered(r) /\ req[r].resp = 500
        /\ RowsOf(req[r].orderId) # {}
        /\ req[r].orderId \in OrderIds

(* C15: the step that answers a DELETE /api/orders/:id of an order that    *)
(* exists, sent with a valid session, answers 204 and leaves neither the   *)
(* order nor a row of its items.                                           *)
C15_DeleteOrderAnswers204 ==
    [][\A r \in Slots :
         (/\ IsDeleteOrders(r) /\ req[r].user
          /\ req[r].pc \in {"deleteItems", "deleteOrder"}
          /\ req'[r].pc = "done"
          /\ req[r].id \in OrderIds)
         => /\ req'[r].resp = 204
            /\ \A o \in orders' : o.id # req[r].id
            /\ \A row \in orderItems' : row.orderId # req[r].id]_vars

(* An item of the request names a product that has no row *)
NamesMissingProduct(q) ==
    \E i \in 1..Len(q.items) : ~ProductExists(q.items[i].productId)

(* C18: a createOrder one of whose items names a missing product is        *)
(* answered 201.                                                           *)
C18_MissingProductTolerated ==
    \A r \in Slots :
        (IsPostOrders(r) /\ Answered(r) /\ req[r].orderId # 0
            /\ req[r].alone /\ NamesMissingProduct(req[r]))
        => req[r].resp = 201

(* C19: once an item of a createOrder has failed, no step removes an order *)
(* row or an order_items row or raises a stock, and the step that answers  *)
(* the request answers 500.                                                *)
C19_NoRollback ==
    [][\A r \in Slots :
         (IsPostOrders(r) /\ (ItemFailed(req[r]) \/ ItemFailed(req'[r])))
         => /\ orders \subseteq orders'
            /\ orderItems \subseteq orderItems'
            /\ \A p \in ProductIds :
                 products'[p].stockQuantity <= products[p].stockQuantity
            /\ (req[r].pc = "items" /\ req'[r].pc = "done")
                 => req'[r].resp = 500]_vars

(* C19: the request was answered 500 after its second item failed; its     *)
(* order row, the row of its first item and that item's decrement are in   *)
(* the store.                                                              *)
C19_PartialStateKept ==
    \E r \in Slots :
        /\ IsPostOrders(r) /\ Answered(r) /\ req[r].resp = 500
        /\ req[r].itemPc = <<"done", "failed">>
        /\ req[r].orderId \in OrderIds
        /\ \E row \in RowsOf(req[r].orderId) : row.idx = 1
        /\ products[1].stockQuantity < req[r].before[1]

(* C20: the Order value of a 201 answer holds every submitted item. *)
C20_ReturnedOrderHasItems ==
    \A r \in Slots :
        (IsPostOrders(r) /\ Answered(r) /\ req[r].resp = 201)
        => Len(req[r].returned) = Len(req[r].items)

----------------------------------------------------------------------------
(* Claims about the propagation of tags *)

IsPatchProducts(r) == IsRoute(r, "PATCH", <<"api", "products", ":id">>)

(* The category and the tags of a request that adds tags to a category *)
AddsCategoryTags(r) ==
    \/ IsRoute(r, "POST", <<"api", "category-tags">>)
    \/ /\ \/ IsRoute(r, "POST", <<"api", "categories">>)
          \/ IsRoute(r, "PATCH", <<"api", "categories", ":id">>)
       /\ IsSome(req[r].body.tags)

AddedTo(r) ==
    IF IsRoute(r, "POST", <<"api", "category-tags">>)
    THEN Get(req[r].body.categoryId) ELSE req[r].cat

AddedTags(r) ==
    IF IsRoute(r, "POST", <<"api", "category-tags">>)
    THEN {Get(req[r].body.tagId)} ELSE ExplicitTags(req[r].body)

(* C16: when a request that adds tags to category C has been answered 200  *)
(* or 201, with no other request writing meanwhile, every product of C is  *)
(* linked to each of the tags added.                                       *)
C16_CategoryTagsPropagated ==
    \A r \in Slots :
        (AddsCategoryTags(r) /\ Answered(r) /\ req[r].resp \in {200, 201}
            /\ req[r].alone)
        => \A p \in GetProductsByCategory(AddedTo(r)) :
             AddedTags(r) \subseteq GetProductTags(p)

(* C17: when a PATCH of a product that carried a tags list L has been      *)
(* answered 200, with no other request writing meanwhile, the product's    *)
(* tags are exactly L and the tags of its category.                        *)
C17_TagsReplaced ==
    \A r \in Slots :
        (IsPatchProducts(r) /\ Answered(r) /\ req[r].resp = 200
            /\ IsSome(req[r].body.tags) /\ req[r].alone)
        => GetProductTags(req[r].pid) =
              ExplicitTags(req[r].body)
              \cup GetCategoryTags(products[req[r].pid].categoryId)

(* C17: such a PATCH has been answered and a tag the product had before,   *)
(* which is neither in L nor a tag of the category, is gone.               *)
C17_OldLinkGone ==
    \E r \in Slots :
        /\ IsPatchProducts(r) /\ Answered(r) /\ req[r].resp = 200
        /\ IsSome(req[r].body.tags)
        /\ req[r].hadTags \ GetProductTags(req[r].pid) # {}
        /\ GetCategoryTags(products[req[r].pid].categoryId) # {}
        /\ ExplicitTags(req[r].body) # {}

----------------------------------------------------------------------------
(* Validation: bodies the schemas refuse, next to bodies they accept *)

PricedItem(p, n, pr) ==
    [orderId |-> Some(0), productId |-> Some(p), quantity |-> Some(n),
     price |-> Some(pr)]

ValidateOrderLists ==
    {<<>>, <<PricedItem(1, 0, 50)>>, <<PricedItem(1, 1, 0 - 1)>>,
     <<PricedItem(1, 1, 50)>>,
     <<PricedItem(1, 1, 50), PricedItem(2, 0, 50)>>,
     <<PricedItem(1, 1, 50), PricedItem(2, 1, 0)>>}

ValidateRequests ==
    {Request("POST", <<"api", "orders">>, 0, OrderBody(None, l)) :
        l \in ValidateOrderLists}
    \cup {Request("POST", <<"api", "orders">>, 0,
                  [OrderBody(None, <<PricedItem(1, 1, 50)>>)
                      EXCEPT !.customerWhatsapp = w]) : w \in {None, Some("")}}
    \cup {Request("POST", <<"api", "products">>, 0, b) :
            b \in {NewProductBody,
                   [NewProductBody EXCEPT !.name = Some("")],
                   [NewProductBody EXCEPT !.price = Some(0 - 1)],
                   [NewProductBody EXCEPT !.stockQuantity = Some(0 - 1),
                                          !.tags = Some(<<2>>)]}}
    \cup {Request("PATCH", <<"api", "products", ":id">>, 1, b) :
            b \in {[EmptyBody EXCEPT !.stockQuantity = Some(1)],
                   [EmptyBody EXCEPT !.stockQuantity = Some(0 - 1)],
                   [EmptyBody EXCEPT !.name = Some(""),
                                     !.tags = Some(<<2>>)]}}
    \cup {Request("POST", <<"api", "categories">>, 0, b) :
            b \in {NewCategoryBody,
                   [NewCategoryBody EXCEPT !.slug = Some(""),
                                           !.tags = Some(<<2>>)],
                   [NewCategoryBody EXCEPT !.name = None]}}
    \cup {Request("PATCH", <<"api", "categories", ":id">>, 1, b) :
            b \in {[EmptyBody EXCEPT !.tags = Some(<<2>>)],
                   [EmptyBody EXCEPT !.name = Some(""),
                                     !.tags = Some(<<2>>)]}}
    \cup {Request("POST", <<"api", "tags">>, 0, b) :
            b \in {[EmptyBody EXCEPT !.name = Some("Hot"), !.slug = Some("hot")],
                   [EmptyBody EXCEPT !.name = Some("Hot"), !.slug = Some("")],
                   [EmptyBody EXCEPT !.slug = Some("hot")]}}
    \cup {Request("PATCH", <<"api", "tags", ":id">>, 2, b) :
            b \in {[EmptyBody EXCEPT !.name = Some("Hot")],
                   [EmptyBody EXCEPT !.slug = Some("")]}}

ArriveValidate(r) ==
    \E c \in Clients, x \in ValidateRequests :
        Arrive(r, x.method, x.url, x.id, c, x.body)

NextValidate ==
    \/ Login
    \/ \E r \in {1} :
         \/ ArriveValidate(r)
         \/ SessionGate(r)
         \/ PostOrders(r)
         \/ \E i \in 1..2 : CreateOrderItem(r, i)
         \/ PostProducts(r)
         \/ PatchProducts(r)
         \/ PostCategories(r)
         \/ PatchCategories(r)
         \/ PostTags(r)
         \/ PatchTags(r)
         \/ Finish(r)

SpecValidate == Init /\ [][NextValidate]_vars

----------------------------------------------------------------------------
(* Claims about validation *)

(* The items of an order body that the order flow is required to refuse:  *)
(* none at all, or one with a quantity under 1 or a price under 0.        *)
RefusedItems(b) ==
    /\ IsSome(b.items)
    /\ \/ Get(b.items) = <<>>
       \/ \E i \in 1..Len(Get(b.items)) :
            \/ Get(Get(b.items)[i].quantity) < 1
            \/ Get(Get(b.items)[i].price) < 0

(* C21: a POST /api/orders whose items list is empty, or holds an item     *)
(* with quantity < 1 or price < 0, is answered 400 by the handler, and no  *)
(* step taken while it is being served changes the store.                  *)
C21_BadItemsRejected ==
    [][\A r \in {1} :
         (IsPostOrders(r) /\ RefusedItems(req[r].body))
         => /\ store' = store
            /\ req[r].pc = "handler"
               => (req'[r].pc = "done" /\ req'[r].resp = 400)]_vars

(* A field that is present and under the minimum its schema sets *)
EmptyString(o) == IsSome(o) /\ Get(o) = ""
Negative(o) == IsSome(o) /\ Get(o) < 0

(* The bodies of create and update requests that the schema of their       *)
(* route refuses: a required field missing, a string shorter than 1, a     *)
(* number under its minimum.                                               *)
FailsValidation(q) ==
    LET b == q.body IN
    CASE q.url = <<"api", "orders">> /\ q.method = "POST" ->
           \/ ~IsSome(b.customerWhatsapp) \/ EmptyString(b.customerWhatsapp)
           \/ /\ IsSome(b.items)
              /\ \E i \in 1..Len(Get(b.items)) :
                   \/ Get(Get(b.items)[i].quantity) < 1
                   \/ Get(Get(b.items)[i].price) < 0
      [] q.url = <<"api", "products">> /\ q.method = "POST" ->
           \/ ~IsSome(b.name) \/ ~IsSome(b.price) \/ ~IsSome(b.stockQuantity)
           \/ EmptyString(b.name) \/ Negative(b.price)
           \/ Negative(b.stockQuantity)
      [] q.url = <<"api", "products", ":id">> /\ q.method = "PATCH" ->
           EmptyString(b.name) \/ Negative(b.price)
           \/ Negative(b.stockQuantity)
      [] q.url \in {<<"api", "categories">>, <<"api", "tags">>}
            /\ q.method = "POST" ->
           \/ ~IsSome(b.name) \/ ~IsSome(b.slug)
           \/ EmptyString(b.name) \/ EmptyString(b.slug)
      [] q.url \in {<<"api", "categories", ":id">>, <<"api", "tags", ":id">>}
            /\ q.method = "PATCH" ->
           EmptyString(b.name) \/ EmptyString(b.slug)
      [] OTHER -> FALSE

(* C22: a create or update request whose body its schema refuses is        *)
(* answered 400 by the first step of its handler, and no step taken while  *)
(* it is being served changes the store.                                   *)
C22_ValidatedBeforeWrite ==
    [][\A r \in {1} :
         FailsValidation(req[r])
         => /\ store' = store
            /\ req[r].pc = "handler"
               => (req'[r].pc = "done" /\ req'[r].resp = 400)]_vars

(* C22: a PATCH of category 1 that carries a tags list and an empty name   *)
(* has been answered 400, and the category still has the tag it had.       *)
C22_BadPatchRefused ==
    \E r \in {1} :
        /\ IsRoute(r, "PATCH", <<"api", "categories", ":id">>)
        /\ FailsValidation(req[r]) /\ IsSome(req[r].body.tags)
        /\ Answered(r) /\ req[r].resp = 400
        /\ GetCategoryTags(req[r].id) = {1}

----------------------------------------------------------------------------
(* Deletions in the catalog: of rows that exist and of ids without a row *)

DeleteRequests ==
    {Request("PATCH", <<"api", "products", ":id">>, 1,
             [EmptyBody EXCEPT !.tags = Some(<<2>>)])}
    \cup {Request("DELETE", <<"api", "products", ":id">>, i, EmptyBody) :
            i \in ProductIds}
    \cup {Request("DELETE", <<"api", "categories", ":id">>, i, EmptyBody) :
            i \in 1..MaxCategories}
    \cup {Request("DELETE", <<"api", "tags", ":id">>, i, EmptyBody) :
            i \in 1..MaxTags}

ArriveDelete(r) ==
    \E c \in Clients, x \in DeleteRequests :
        Arrive(r, x.method, x.url, x.id, c, x.body)

NextDelete ==
    \/ Login
    \/ \E r \in {1} :
         \/ ArriveDelete(r)
         \/ SessionGate(r)
         \/ PatchProducts(r)
         \/ DeleteProducts(r)
         \/ DeleteCategories(r)
         \/ DeleteTags(r)
         \/ Finish(r)

SpecDelete == Init /\ [][NextDelete]_vars

----------------------------------------------------------------------------
(* Claims about deletions *)

IsDeleteProducts(r) == IsRoute(r, "DELETE", <<"api", "products", ":id">>)

(* A DELETE of a product, a category or a tag whose id has no row *)
DeletesMissingRow(q) ==
    /\ q.method = "DELETE"
    /\ CASE q.url = <<"api", "products", ":id">> -> q.id \notin LiveProducts
         [] q.url = <<"api", "categories", ":id">> -> q.id \notin categories
         [] q.url = <<"api", "tags", ":id">> -> q.id \notin TagIds
         [] OTHER -> FALSE

(* C23: the step that answers a DELETE of a product, a category or a tag   *)
(* whose id has no row, sent with a valid session and served by a store    *)
(* that reports no error, answers 404 and leaves the store as it was.      *)
C23_DeleteMissingIs404 ==
    [][\A r \in {1} :
         (/\ DeletesMissingRow(req[r]) /\ req[r].user
          /\ req[r].pc # "done" /\ req'[r].pc = "done"
          /\ req'[r].resp # 500)
         => (req'[r].resp = 404 /\ store' = store)]_vars

(* C24: a DELETE of a product that is answered 204 leaves no product_tags  *)
(* row of the product; the products row goes only in the step after the    *)
(* links have gone, in a state where none is left; and when the removal    *)
(* of the links fails the request ends with the products table untouched.  *)
C24_LinksBeforeRow ==
    [][\A r \in {1} :
         IsDeleteProducts(r) =>
           /\ (req[r].pc # "done" /\ req'[r].pc = "done"
                  /\ req'[r].resp = 204)
              => \A l \in productTags' : l[1] # req[r].id
           /\ \A p \in ProductIds :
                (products[p].live /\ ~products'[p].live)
                => /\ req[r].pc = "deleteProduct" /\ p = req[r].id
                   /\ \A l \in productTags : l[1] # p
           /\ (req[r].pc = "removeProductTag" /\ req'[r].pc = "done")
              => (products' = products /\ req'[r].resp = 500)]_vars

(* C24: the DELETE of a product that had a tag has been answered 204; the  *)
(* row and its links are gone.                                             *)
C24_ProductDeletedAfterLinks ==
    \E r \in {1} :
        /\ IsDeleteProducts(r) /\ Answered(r) /\ req[r].resp = 204
        /\ req[r].hadTags # {}
        /\ req[r].id \notin LiveProducts
        /\ \A l \in productTags : l[1] # req[r].id

----------------------------------------------------------------------------
(* Links added twice: tags lists that repeat a tag, and tags named by the  *)
(* body that the category has as well.                                     *)

RelinkRequests ==
    {Request("PATCH", <<"api", "products", ":id">>, 1,
             [EmptyBody EXCEPT !.categoryId = c, !.tags = Some(l)]) :
        c \in {None, Some(1)}, l \in {<<1>>, <<2, 2>>}}
    \cup {Request("POST", <<"api", "products">>, 0,
                  [NewProductBody EXCEPT !.categoryId = Some(1),
                                         !.tags = Some(<<1>>)])}
    \cup {Request("PATCH", <<"api", "categories", ":id">>, 1,
                  [EmptyBody EXCEPT !.tags = Some(l)]) :
            l \in {<<1>>, <<2, 2>>, <<1, 2, 1>>}}
    \cup {Request("POST", <<"api", "categories">>, 0,
                  [NewCategoryBody EXCEPT !.tags = Some(<<2, 2>>)])}

ArriveRelink(r) ==
    \E x \in RelinkRequests :
        Arrive(r, x.method, x.url, x.id, "admin", x.body)

NextRelink ==
    \/ Login
    \/ \E r \in {1} :
         \/ ArriveRelink(r)
         \/ SessionGate(r)
         \/ PostProducts(r)
         \/ PatchProducts(r)
         \/ PostCategories(r)
         \/ PatchCategories(r)
         \/ Finish(r)

SpecRelink == Init /\ [][NextRelink]_vars

----------------------------------------------------------------------------
(* Claims about links *)

(* The request is about to call addProductTag, or addCategoryTag, for a    *)
(* pair that the table holds already.                                      *)
AddsProductTagAgain(q) ==
    /\ q.url \in {<<"api", "products">>, <<"api", "products", ":id">>}
    /\ q.pc \in {"addTags", "inherit"}
    /\ <<q.pid, Head(q.todo)>> \in productTags

AddsCategoryTagAgain(q) ==
    /\ q.url \in {<<"api", "categories">>, <<"api", "categories", ":id">>}
    /\ q.pc = "addCategoryTags"
    /\ <<q.cat, Head(q.todo)>> \in categoryTags

(* C25: a call of addProductTag or addCategoryTag for a pair that is       *)
(* linked already returns without an error (the request goes on, it is     *)
(* not answered 500) and leaves both link relations as they were.          *)
C25_DuplicateLinkNoOp ==
    [][\A r \in {1} :
         (/\ AddsProductTagAgain(req[r]) \/ AddsCategoryTagAgain(req[r])
          /\ req'[r] # req[r])
         => /\ productTags' = productTags
            /\ categoryTags' = categoryTags
            /\ req'[r].resp # 500]_vars

(* C25: a PATCH of a product whose tags list names tag 2 twice has been    *)
(* answered 200 and the product is linked to tag 2.                        *)
C25_RepeatedTagLinkedOnce ==
    \E r \in {1} :
        /\ IsPatchProducts(r) /\ Answered(r) /\ req[r].resp = 200
        /\ req[r].body.tags = Some(<<2, 2>>)
        /\ 2 \in GetProductTags(req[r].pid)

----------------------------------------------------------------------------
(* Claims about the handlers behind the gate *)

(* C26: a POST, PATCH or DELETE sent with a session whose token the        *)
(* provider accepts is not answered 403; in particular the requests on     *)
(* /api/product-tags and /api/category-tags get past the test of req.user. *)
C26_SessionNeverForbidden ==
    \A r \in Slots :
        (req[r].method # "GET" /\ Answered(r) /\ req[r].sessOK)
        => req[r].resp # 403

----------------------------------------------------------------------------
(* Claims about the tasks of one order *)

(* C27: when createOrder has returned for an order of two items of the     *)
(* same product, with no other request writing meanwhile, the product's    *)
(* stock is what it was before, less the two quantities.                   *)
C27_TwoItemsOneProduct ==
    \A r \in Slots :
        (/\ IsPostOrders(r) /\ req[r].pc = "done" /\ req[r].resp = 201
         /\ req[r].alone
         /\ Len(req[r].items) = 2
         /\ req[r].items[1].productId = req[r].items[2].productId
         /\ ProductExists(req[r].items[1].productId))
        => products[req[r].items[1].productId].stockQuantity =
              req[r].before[req[r].items[1].productId]
                 - (req[r].items[1].quantity + req[r].items[2].quantity)

----------------------------------------------------------------------------
(* The cart under every action its reducer accepts *)

(* useCart().addItem, removeItem, updateQuantity, clearCart *)
addItem(p, o) ==
    /\ (IF InCart(cart, p) THEN CartQuantity(cart, p) ELSE 0)
          + QuantityOr1(o) <= MaxCartQty
    /\ Dispatch(AddItemAction(p, o))

removeItem(p) == Dispatch(RemoveItemAction(p))

updateQuantity(p, n) == Dispatch(UpdateQuantityAction(p, n))

clearCart == Dispatch(ClearCartAction)

NextCart ==
    \/ \E p \in LiveProducts, o \in {None, Some(0), Some(1), Some(2)} :
         addItem(p, o)
    \/ \E p \in LiveProducts : removeItem(p)
    \/ \E p \in LiveProducts, n \in 0..MaxCartQty : updateQuantity(p, n)
    \/ clearCart

SpecCart == Init /\ [][NextCart]_vars

(* The cart under the operations of the storefront's pages *)

(* pages/product-page.tsx:63-64: Add to Cart; product.stock is no field of *)
(* a product, so the button is never disabled                              *)
AddToCartClick(p) == addItem(p, None)

(* components/cart.tsx:95-103: the minus button of an entry *)
MinusClick(i) ==
    /\ i \in 1..Len(cart)
    /\ updateQuantity(cart[i].product,
                      IF cart[i].quantity - 1 > 0 THEN cart[i].quantity - 1
                      ELSE 0)

(* components/cart.tsx:105-113: the plus button of an entry *)
PlusClick(i) ==
    /\ i \in 1..Len(cart)
    /\ cart[i].quantity + 1 <= MaxCartQty
    /\ updateQuantity(cart[i].product, cart[i].quantity + 1)

(* components/cart.tsx:114-120: the bin button of an entry *)
TrashClick(i) ==
    /\ i \in 1..Len(cart)
    /\ removeItem(cart[i].product)

(* components/cart.tsx:31-35: the items of the order body sent at checkout *)
CheckoutItems(items) ==
    [i \in 1..Len(items) |-> Item(None, items[i].product, items[i].quantity)]

(* components/cart.tsx:12-58: Order via WhatsApp, shown when the cart has  *)
(* an entry; the cart is cleared when the request did not throw, and kept  *)
(* otherwise                                                               *)
CheckoutClick ==
    /\ cart # <<>>
    /\ \/ clearCart
       \/ UNCHANGED vars

NextStorefront ==
    \/ \E p \in LiveProducts : AddToCartClick(p)
    \/ \E i \in 1..Cardinality(LiveProducts) :
         \/ MinusClick(i)
         \/ PlusClick(i)
         \/ TrashClick(i)
    \/ CheckoutClick

SpecStorefront == Init /\ [][NextStorefront]_vars

----------------------------------------------------------------------------
(* Claims about the cart *)

(* C29: the cart never holds two entries of one product, and an ADD_ITEM   *)
(* for a product that has an entry leaves the number of entries as it is   *)
(* and raises that entry's quantity by the action's quantity (by 1 when    *)
(* the action has none).                                                   *)
C29_OneEntryPerProduct ==
    [][/\ \A i, j \in 1..Len(cart') :
            cart'[i].product = cart'[j].product => i = j
       /\ (dispatched'.type = "ADD_ITEM" /\ InCart(cart, dispatched'.product))
          => /\ Len(cart') = Len(cart)
             /\ CartQuantity(cart', dispatched'.product) >
                   CartQuantity(cart, dispatched'.product)
             /\ CartQuantity(cart', dispatched'.product) =
                   CartQuantity(cart, dispatched'.product)
                      + QuantityOr1(dispatched'.quantity)]_vars

(* C29: an ADD_ITEM without a quantity was the last action, the cart has   *)
(* two entries, and the entry of the action's product stands at 2 or more, *)
(* so the product had an entry when the action came.                       *)
C29_AddedToExistingEntry ==
    /\ dispatched.type = "ADD_ITEM" /\ dispatched.quantity = None
    /\ Len(cart) = 2
    /\ InCart(cart, dispatched.product)
    /\ CartQuantity(cart, dispatched.product) >= 2

(* C30: every entry of the cart has a quantity of 1 or more, and so has    *)
(* every item of the order body the checkout builds from it.               *)
C30_QuantitiesAtLeastOne ==
    /\ \A i \in 1..Len(cart) : cart[i].quantity >= 1
    /\ \A i \in 1..Len(cart) : NumMin(CheckoutItems(cart)[i].quantity, 1)

====
